---- MODULE Spec2Model ----
(***************************************************************************)
(* Model of simulate_nmea.py: the NMEA GGA parser parse_nmea, the two      *)
(* collectors (collect_from_serial, collect_from_testlines) that fill the  *)
(* four parallel storage lists, and the __main__ session around them.      *)
(*                                                                         *)
(* Text is modelled as sequences of ASCII codes, so that the checksum, the *)
(* field split and the numeric conversions are computed, not assumed.      *)
(* Numbers are fixed point: altitudes in 1/1000 m, coordinates in          *)
(* 1/60000 degree (one thousandth of an arc minute), which is exact for    *)
(* inputs with at most three fractional digits.                            *)
(***************************************************************************)
EXTENDS Integers, Sequences, FiniteSets, TLC

VARIABLES
    pc,          \* position of the running program (source line labels)
    USE_SERIAL,  \* configuration flag, line 17
    max_points,  \* configured cap (MAX_POINTS, line 20 / parameter line 64)
    serial,      \* "module" or "None": result of the guarded import, lines 11-14
    ser,         \* serial channel: "none", "open" or "closed"
    time_data, lat_data, lon_data, alt_data,   \* storage lists, lines 24-27
    raw,         \* the line being processed (ASCII codes)
    gen,         \* ghost: how the environment built raw (ground truth labels)
    parsed,      \* result of the last parse_nmea call
    idx,         \* index of the for loop over test_lines, line 110
    accepted,    \* ghost: fixes of the lines a collector has finished storing, in order
    linesRead,   \* ghost: readline calls so far (saturates at MaxReads)
    parseCount,  \* ghost: parse_nmea calls on the current line
    allBlank,    \* ghost: every readline so far timed out with no data
    cancelled,   \* ghost: the user pressed Ctrl+C
    ended,       \* ghost: how the read loop ended: "no", "cap", "fault", "cancel"
    acqFailed,   \* ghost: channel acquisition failed
    out,         \* messages printed to the user (set of tags)
    render       \* outcome of plot_3d: "pending", "nothing", "plotted", "failed"

vars == <<pc, USE_SERIAL, max_points, serial, ser, time_data, lat_data, lon_data,
          alt_data, raw, gen, parsed, idx, accepted, linesRead, parseCount,
          allBlank, cancelled, ended, acqFailed, out, render>>

\* ---------------------------------------------------------------- bounds
MaxCap == 2
MaxReads == 3

\* ------------------------------------------------------------- characters
Ch == [dollar |-> 36, star |-> 42, plus |-> 43, comma |-> 44, minus |-> 45,
       dot |-> 46, zero |-> 48, nine |-> 57, colon |-> 58, A |-> 65, F |-> 70,
       P |-> 80, Q |-> 81, Z |-> 90, underscore |-> 95, a |-> 97, f |-> 102,
       z |-> 122, N |-> 78, S |-> 83, E |-> 69, W |-> 87]

IsDigit(c) == c >= Ch.zero /\ c <= Ch.nine
IsUpperCh(c) == c >= Ch.A /\ c <= Ch.Z
IsLowerCh(c) == c >= Ch.a /\ c <= Ch.z
\* \w of the regular expressions, on ASCII text
IsWord(c) == IsDigit(c) \/ IsUpperCh(c) \/ IsLowerCh(c) \/ c = Ch.underscore
\* [A-F0-9] under re.IGNORECASE
IsHex(c) == IsDigit(c) \/ (c >= Ch.A /\ c <= Ch.F) \/ (c >= Ch.a /\ c <= Ch.f)
HexVal(c) == IF IsDigit(c) THEN c - Ch.zero
             ELSE IF c >= Ch.a THEN c - Ch.a + 10 ELSE c - Ch.A + 10
UpperCh(c) == IF IsLowerCh(c) THEN c - 32 ELSE c
Upper(s) == [i \in 1..Len(s) |-> UpperCh(s[i])]
AllOf(s, P(_)) == \A i \in 1..Len(s) : P(s[i])
\* Python slice s[a:b] with 0-based, clamped bounds
Slice(s, a, b) == SubSeq(s, a + 1, IF b < Len(s) THEN b ELSE Len(s))

RECURSIVE XorBits(_, _, _)
XorBits(a, b, n) ==
    IF n = 0 THEN 0
    ELSE (((a % 2) + (b % 2)) % 2) + 2 * XorBits(a \div 2, b \div 2, n - 1)

\* NMEASentence.checksum: xor of the character codes of nmea_str; bit k of the
\* result is the parity of bit k over the characters
Bit(x, k) == (x \div (2 ^ k)) % 2
Parity(s, k) == Cardinality({i \in 1..Len(s) : Bit(s[i], k) = 1}) % 2
checksum(nmea_str) ==
    Parity(nmea_str, 0) + 2 * Parity(nmea_str, 1) + 4 * Parity(nmea_str, 2)
    + 8 * Parity(nmea_str, 3) + 16 * Parity(nmea_str, 4) + 32 * Parity(nmea_str, 5)
    + 64 * Parity(nmea_str, 6) + 128 * Parity(nmea_str, 7)

\* first position >= i of c in s, 0 when there is none
IndexOf(s, c, i) ==
    LET hits == {j \in i..Len(s) : s[j] = c}
    IN  IF hits = {} THEN 0 ELSE CHOOSE j \in hits : \A h \in hits : j <= h

\* str.split(sep): always at least one (possibly empty) piece
SepAt(s, sep, k) ==
    IF k = 0 THEN 0
    ELSE LET hits == {j \in 1..Len(s) : s[j] = sep}
         IN  IF Cardinality(hits) < k THEN Len(s) + 1
             ELSE CHOOSE j \in hits : Cardinality({h \in hits : h <= j}) = k
Split(s, sep) ==
    [k \in 1..(Cardinality({j \in 1..Len(s) : s[j] = sep}) + 1) |->
        SubSeq(s, SepAt(s, sep, k - 1) + 1, SepAt(s, sep, k) - 1)]

RECURSIVE DigitsVal(_, _)
DigitsVal(s, acc) ==
    IF s = <<>> THEN acc ELSE DigitsVal(Tail(s), 10 * acc + (Head(s) - Ch.zero))

\* int(s) on an unsigned digit string
IntOK(s) == s # <<>> /\ AllOf(s, IsDigit)
IntVal(s) == DigitsVal(s, 0)

\* float(s) on plain decimal text [sign] digits [. digits]; value in thousandths
DecBody(s) == IF s # <<>> /\ s[1] \in {Ch.plus, Ch.minus} THEN Tail(s) ELSE s
DecSign(s) == IF s # <<>> /\ s[1] = Ch.minus THEN -1 ELSE 1
DecInt(s) == LET b == DecBody(s)  k == IndexOf(b, Ch.dot, 1)
             IN  IF k = 0 THEN b ELSE SubSeq(b, 1, k - 1)
DecFrac(s) == LET b == DecBody(s)  k == IndexOf(b, Ch.dot, 1)
              IN  IF k = 0 THEN <<>> ELSE SubSeq(b, k + 1, Len(b))
Milli(frac) == DigitsVal(Slice(frac \o <<Ch.zero, Ch.zero, Ch.zero>>, 0, 3), 0)
FloatOK(s) == /\ AllOf(DecInt(s), IsDigit)
              /\ AllOf(DecFrac(s), IsDigit)
              /\ Len(DecInt(s)) + Len(DecFrac(s)) > 0
FloatVal(s) == DecSign(s) * (1000 * DigitsVal(DecInt(s), 0) + Milli(DecFrac(s)))

TwoDigits(n) == <<Ch.zero + (n \div 10), Ch.zero + (n % 10)>>

\* Attribute values of a parsed sentence
NoneV == [tag |-> "none", n |-> 0, s |-> <<>>]
NumV(x) == [tag |-> "num", n |-> x, s |-> <<>>]
StrV(x) == [tag |-> "str", n |-> 0, s |-> x]
TimeV(h, m, sec) == [tag |-> "time", n |-> 0, s |-> <<h, m, sec>>]
RaiseV == [tag |-> "raise", n |-> 0, s |-> <<>>]

\* ------------------------------------------- pynmea2.parse (called at line 32)
\* NMEASentence.sentence_re: optional '$', the sentence type identifier, the
\* data up to '*', an optional two-digit hexadecimal checksum.
StripDollar(line) == IF line # <<>> /\ line[1] = Ch.dollar THEN Tail(line) ELSE line
StarAt(line) == IndexOf(StripDollar(line), Ch.star, 1)
NmeaStr(line) == LET s == StripDollar(line)  k == StarAt(line)
                 IN  IF k = 0 THEN s ELSE SubSeq(s, 1, k - 1)
ChecksumStr(line) == LET s == StripDollar(line)  k == StarAt(line)
                     IN  IF k = 0 THEN <<>> ELSE SubSeq(s, k + 1, Len(s))
ChecksumSyntaxOK(line) ==
    StarAt(line) = 0 \/ (Len(ChecksumStr(line)) = 2 /\ AllOf(ChecksumStr(line), IsHex))

\* the three alternatives of the sentence type identifier, tried in this order
IsProprietaryId(n) == Len(n) >= 4 /\ UpperCh(n[1]) = Ch.P /\ AllOf(SubSeq(n, 2, 4), IsWord)
IsQueryId(n) == /\ Len(n) >= 9
                /\ AllOf(SubSeq(n, 1, 4), IsWord)
                /\ UpperCh(n[5]) = Ch.Q
                /\ n[6] = Ch.comma
                /\ AllOf(SubSeq(n, 7, 9), IsWord)
IsTalkerId(n) == Len(n) >= 6 /\ AllOf(SubSeq(n, 1, 5), IsWord) /\ n[6] = Ch.comma
IdForm(n) == IF IsProprietaryId(n) THEN "proprietary"
             ELSE IF IsQueryId(n) THEN "query"
             ELSE IF IsTalkerId(n) THEN "talker"
             ELSE "nomatch"
IdLen(n) == CASE IdForm(n) = "proprietary" -> 4
              [] IdForm(n) = "query" -> 9
              [] IdForm(n) = "talker" -> 6
              [] OTHER -> 0

\* sentence classes registered with TalkerSentence (the common GNSS ones)
GGA == <<71, 71, 65>>
KnownTalkerTypes == {GGA, <<82, 77, 67>>, <<71, 76, 76>>, <<71, 83, 65>>,
                     <<71, 83, 86>>, <<86, 84, 71>>, <<90, 68, 65>>}
                    \* GGA RMC GLL GSA GSV VTG ZDA

ErrMsg(e) == [cls |-> "error", err |-> e, sentence_type |-> <<>>, data |-> <<>>]

\* pynmea2.parse after the match: n is nmea_str, cs the checksum text, st the
\* upper-cased sentence type identifier, dstr the data string
pynmea2_build(n, cs, form, st, dstr) ==
    IF cs # <<>> /\ 16 * HexVal(cs[1]) + HexVal(cs[2]) # checksum(n)
    THEN ErrMsg("ChecksumError")
    ELSE IF form = "talker"
         THEN IF SubSeq(st, 3, 5) \in KnownTalkerTypes
              THEN [cls |-> "talker", err |-> "", sentence_type |-> SubSeq(st, 3, 5),
                    data |-> Split(dstr, Ch.comma)]
              ELSE ErrMsg("SentenceTypeError")
    ELSE IF form = "query"
         THEN IF dstr = <<>>
              THEN [cls |-> "query", err |-> "", sentence_type |-> SubSeq(st, 7, 9),
                    data |-> <<>>]
              ELSE ErrMsg("ParseError")
    ELSE \* ProprietarySentence of a manufacturer without a class of its own:
         \* it has manufacturer and data, and no sentence_type attribute
         [cls |-> "proprietary", err |-> "", sentence_type |-> <<>>,
          data |-> Split(dstr, Ch.comma)]

pynmea2_match(line, n) ==
    IF ~ChecksumSyntaxOK(line) \/ IdForm(n) = "nomatch" THEN ErrMsg("ParseError")
    ELSE pynmea2_build(n, ChecksumStr(line), IdForm(n), Upper(SubSeq(n, 1, IdLen(n))),
                       SubSeq(n, IdLen(n) + 1, Len(n)))

\* pynmea2.parse(line): a sentence object, or the exception it raises
\* (ParseError, ChecksumError, SentenceTypeError).
pynmea2_parse(line) == pynmea2_match(line, NmeaStr(line))

\* data[i] with 0-based i, '' past the end (NMEASentence.__getattr__)
Field(msg, i) == IF i + 1 <= Len(msg.data) THEN msg.data[i + 1] ELSE <<>>

\* the timestamp converter of the GGA field 0: datetime.time from hhmmss[.sss]
TimestampOK(s) ==
    /\ IntOK(Slice(s, 0, 2)) /\ IntOK(Slice(s, 2, 4)) /\ IntOK(Slice(s, 4, 6))
    /\ IntVal(Slice(s, 0, 2)) < 24
    /\ IntVal(Slice(s, 2, 4)) < 60
    /\ IntVal(Slice(s, 4, 6)) < 60
    /\ LET ms == Slice(s, 6, Len(s))
       IN  ms = <<>> \/ (FloatOK(ms) /\ FloatVal(ms) >= 0 /\ FloatVal(ms) < 1000)

\* a field with a converter: None when empty, the converted value, or the raw
\* text when the converter raises
Converted(v, ok, val) == IF v = <<>> THEN NoneV ELSE IF ok THEN val ELSE StrV(v)

\* getattr(msg, "timestamp", None)
attr_timestamp(msg) ==
    IF msg.cls # "talker" THEN NoneV
    ELSE LET v == Field(msg, 0)
         IN  Converted(v, TimestampOK(v),
                       TimeV(IntVal(Slice(v, 0, 2)), IntVal(Slice(v, 2, 4)),
                             IntVal(Slice(v, 4, 6))))

\* getattr(msg, "altitude", None): GGA field 8, converter float
attr_altitude(msg) ==
    IF msg.cls # "talker" THEN NoneV
    ELSE LET v == Field(msg, 8) IN Converted(v, FloatOK(v), NumV(FloatVal(v)))

\* nmea_utils.dm_to_sd: dddmm.mmmm to decimal degrees (here in 1/60000 degree)
DmSyntaxOK(dm) == /\ Len(DecInt(dm)) >= 3
                  /\ AllOf(DecInt(dm), IsDigit)
                  /\ Len(DecFrac(dm)) >= 1
                  /\ AllOf(DecFrac(dm), IsDigit)
                  /\ DecBody(dm) = dm
dm_to_sd(dm) ==
    IF dm = <<>> \/ dm = <<Ch.zero>> THEN NumV(0)
    ELSE IF ~DmSyntaxOK(dm) THEN RaiseV
    ELSE LET whole == DigitsVal(DecInt(dm), 0)
         IN  NumV(60000 * (whole \div 100) + 1000 * (whole % 100) + Milli(DecFrac(dm)))

\* LatLonFix.latitude / longitude: signed by the hemisphere field, 0 otherwise;
\* AttributeError on a sentence that is no LatLonFix
SignedDeg(sd, dir, pos, neg) ==
    IF sd.tag = "raise" THEN RaiseV
    ELSE IF dir = <<pos>> THEN sd
    ELSE IF dir = <<neg>> THEN NumV(0 - sd.n)
    ELSE NumV(0)
attr_latitude(msg) ==
    IF msg.cls # "talker" THEN RaiseV
    ELSE SignedDeg(dm_to_sd(Field(msg, 1)), Field(msg, 2), Ch.N, Ch.S)
attr_longitude(msg) ==
    IF msg.cls # "talker" THEN RaiseV
    ELSE SignedDeg(dm_to_sd(Field(msg, 3)), Field(msg, 4), Ch.E, Ch.W)

\* ------------------------------------------------------ parse_nmea, lines 29-61
Rejected == [kind |-> "none", t |-> <<>>, la |-> 0, lo |-> 0, al |-> 0]
Raised == [kind |-> "raise", t |-> <<>>, la |-> 0, lo |-> 0, al |-> 0]
Fix(t, la, lo, al) == [kind |-> "fix", t |-> t, la |-> la, lo |-> lo, al |-> al]

\* lines 39-46: zero-padded HH:MM:SS, str(ts) when ts is no time, "" when absent
time_str(ts) ==
    IF ts.tag = "none" THEN <<>>
    ELSE IF ts.tag = "time"
         THEN TwoDigits(ts.s[1]) \o <<Ch.colon>> \o TwoDigits(ts.s[2])
              \o <<Ch.colon>> \o TwoDigits(ts.s[3])
    ELSE ts.s

\* line 37
GGAFamily == {GGA, <<71, 78>> \o GGA, <<71, 80>> \o GGA}    \* "GGA", "GNGGA", "GPGGA"

\* lines 49-54: float(x) if x not in (None, "") else None; "raise" when the
\* attribute access or float() raises inside the try
ToFloat(v) ==
    IF v.tag = "raise" THEN RaiseV
    ELSE IF v.tag = "none" \/ (v.tag = "str" /\ v.s = <<>>) THEN NoneV
    ELSE IF v.tag = "num" THEN v
    ELSE IF FloatOK(v.s) THEN NumV(FloatVal(v.s)) ELSE RaiseV

\* lines 56-59
parse_nmea_result(ts, lat, lon, alt) ==
    IF "raise" \in {lat.tag, lon.tag, alt.tag} THEN Rejected          \* line 54
    ELSE IF "none" \in {lat.tag, lon.tag, alt.tag} THEN Rejected      \* line 57
    ELSE Fix(time_str(ts), lat.n, lon.n, alt.n)

\* lines 36-61, msg being the parsed sentence
parse_nmea_msg(msg) ==
    IF msg.cls = "error" THEN Rejected                       \* lines 31-34
    ELSE IF msg.cls = "proprietary" THEN Raised              \* line 37: AttributeError
    ELSE IF msg.sentence_type \notin GGAFamily THEN Rejected \* lines 37, 61
    ELSE parse_nmea_result(attr_timestamp(msg), ToFloat(attr_latitude(msg)),
                           ToFloat(attr_longitude(msg)), ToFloat(attr_altitude(msg)))

parse_nmea(line) == parse_nmea_msg(pynmea2_parse(line))

\* ------------------------------------------- test_lines, lines 102-109
test_lines == <<
    \* line 103: $GPGGA,123519,4807.038,N,01131.000,E,1,08,0.9,545.4,M,46.9,M,,*47
    <<36, 71, 80, 71, 71, 65, 44, 49, 50, 51, 53, 49, 57, 44, 52, 56, 48, 55,
      46, 48, 51, 56, 44, 78, 44, 48, 49, 49, 51, 49, 46, 48, 48, 48, 44, 69,
      44, 49, 44, 48, 56, 44, 48, 46, 57, 44, 53, 52, 53, 46, 52, 44, 77, 44,
      52, 54, 46, 57, 44, 77, 44, 44, 42, 52, 55>>,
    \* line 104: $GPGGA,123520,4807.123,N,01131.321,E,1,08,0.9,550.0,M,46.9,M,,*48
    <<36, 71, 80, 71, 71, 65, 44, 49, 50, 51, 53, 50, 48, 44, 52, 56, 48, 55,
      46, 49, 50, 51, 44, 78, 44, 48, 49, 49, 51, 49, 46, 51, 50, 49, 44, 69,
      44, 49, 44, 48, 56, 44, 48, 46, 57, 44, 53, 53, 48, 46, 48, 44, 77, 44,
      52, 54, 46, 57, 44, 77, 44, 44, 42, 52, 56>>,
    \* line 105: $GPGGA,123521,4807.210,N,01131.600,E,1,08,0.9,560.0,M,46.9,M,,*49
    <<36, 71, 80, 71, 71, 65, 44, 49, 50, 51, 53, 50, 49, 44, 52, 56, 48, 55,
      46, 50, 49, 48, 44, 78, 44, 48, 49, 49, 51, 49, 46, 54, 48, 48, 44, 69,
      44, 49, 44, 48, 56, 44, 48, 46, 57, 44, 53, 54, 48, 46, 48, 44, 77, 44,
      52, 54, 46, 57, 44, 77, 44, 44, 42, 52, 57>>,
    \* line 106: $GPGGA,123522,4807.350,N,01131.800,E,1,08,0.9,570.0,M,46.9,M,,*50
    <<36, 71, 80, 71, 71, 65, 44, 49, 50, 51, 53, 50, 50, 44, 52, 56, 48, 55,
      46, 51, 53, 48, 44, 78, 44, 48, 49, 49, 51, 49, 46, 56, 48, 48, 44, 69,
      44, 49, 44, 48, 56, 44, 48, 46, 57, 44, 53, 55, 48, 46, 48, 44, 77, 44,
      52, 54, 46, 57, 44, 77, 44, 44, 42, 53, 48>>,
    \* line 107: $GPGGA,123523,4807.500,N,01132.050,E,1,08,0.9,580.0,M,46.9,M,,*51
    <<36, 71, 80, 71, 71, 65, 44, 49, 50, 51, 53, 50, 51, 44, 52, 56, 48, 55,
      46, 53, 48, 48, 44, 78, 44, 48, 49, 49, 51, 50, 46, 48, 53, 48, 44, 69,
      44, 49, 44, 48, 56, 44, 48, 46, 57, 44, 53, 56, 48, 46, 48, 44, 77, 44,
      52, 54, 46, 57, 44, 77, 44, 44, 42, 53, 49>>,
    \* line 108: $GPGGA,123524,4807.720,N,01132.300,E,1,08,0.9,590.0,M,46.9,M,,*52
    <<36, 71, 80, 71, 71, 65, 44, 49, 50, 51, 53, 50, 52, 44, 52, 56, 48, 55,
      46, 55, 50, 48, 44, 78, 44, 48, 49, 49, 51, 50, 46, 51, 48, 48, 44, 69,
      44, 49, 44, 48, 56, 44, 48, 46, 57, 44, 53, 57, 48, 46, 48, 44, 77, 44,
      52, 54, 46, 57, 44, 77, 44, 44, 42, 53, 50>> >>

\* ---------------------------------------------------- lines the environment sends
\* A line is described by labels (the ground truth about how it was built) and
\* rendered to text; parse_nmea only ever sees the text.
NoGen == [form |-> "-", talker |-> "-", stype |-> "-", ts |-> "-", lat |-> "-",
          lon |-> "-", alt |-> "-", cs |-> "-"]

TalkerGens ==
    [form : {"talker"}, talker : {"GP", "GN"}, stype : {"GGA", "RMC", "XYZ"},
     ts : {"absent", "valid", "invalid"},
     lat : {"absent", "north", "south", "invalid"},
     lon : {"absent", "east", "west", "invalid"},
     alt : {"absent", "a", "b", "invalid"},
     cs : {"none", "good", "bad"}]

Special(f) == [NoGen EXCEPT !.form = f]
SpecialGens == {Special(f) : f \in {"empty", "garbage", "proprietary", "query", "truncated"}}

AllGens == TalkerGens \cup SpecialGens

Txt == [GP |-> <<71, 80>>, GN |-> <<71, 78>>,
        GGA |-> <<71, 71, 65>>, RMC |-> <<82, 77, 67>>, XYZ |-> <<88, 89, 90>>,
        ts_valid |-> <<49, 50, 51, 53, 49, 57>>,                \* 123519
        ts_invalid |-> <<50, 53, 54, 49, 57, 57>>,              \* 256199
        north |-> <<52, 56, 48, 55, 46, 48, 51, 56>>,           \* 4807.038
        south |-> <<51, 53, 51, 48, 46, 50, 53, 48>>,           \* 3530.250
        east |-> <<48, 49, 49, 51, 49, 46, 48, 48, 48>>,        \* 01131.000
        west |-> <<49, 51, 57, 49, 50, 46, 53, 48, 48>>,        \* 13912.500
        alt_a |-> <<53, 52, 53, 46, 52>>,                       \* 545.4
        alt_b |-> <<49, 50, 46, 53>>,                           \* 12.5
        invalid |-> <<120, 120>>,                               \* xx
        quality |-> <<49, 44, 48, 56, 44, 48, 46, 57>>,         \* 1,08,0.9
        rest |-> <<77, 44, 52, 54, 46, 57, 44, 77, 44, 44>>,    \* M,46.9,M,,
        garbage |-> <<104, 101, 108, 108, 111>>,                \* hello
        proprietary |-> <<36, 80, 70, 79, 79, 44, 49, 44, 50>>, \* $PFOO,1,2
        query |-> <<36, 67, 67, 71, 80, 81, 44, 71, 71, 65>>,   \* $CCGPQ,GGA
        truncated |-> <<36, 71, 80, 71, 71, 65, 44, 49, 50, 51, 53, 49, 57, 44,
                        52, 56, 48, 55, 46, 48, 51, 56, 44, 78>>]
                                                         \* $GPGGA,123519,4807.038,N

HexDigit(d) == IF d < 10 THEN Ch.zero + d ELSE Ch.A + (d - 10)
Hex2(n) == <<HexDigit(n \div 16), HexDigit(n % 16)>>

RECURSIVE Join(_, _)
Join(parts, sep) ==
    IF Len(parts) = 1 THEN parts[1] ELSE parts[1] \o <<sep>> \o Join(Tail(parts), sep)

TalkerBody(g) ==
    Join(<< Txt[g.talker] \o Txt[g.stype],
            CASE g.ts = "valid" -> Txt.ts_valid [] g.ts = "invalid" -> Txt.ts_invalid
              [] OTHER -> <<>>,
            CASE g.lat = "north" -> Txt.north [] g.lat = "south" -> Txt.south
              [] g.lat = "invalid" -> Txt.invalid [] OTHER -> <<>>,
            CASE g.lat = "absent" -> <<>> [] g.lat = "south" -> <<Ch.S>> [] OTHER -> <<Ch.N>>,
            CASE g.lon = "east" -> Txt.east [] g.lon = "west" -> Txt.west
              [] g.lon = "invalid" -> Txt.invalid [] OTHER -> <<>>,
            CASE g.lon = "absent" -> <<>> [] g.lon = "west" -> <<Ch.W>> [] OTHER -> <<Ch.E>>,
            Txt.quality,
            CASE g.alt = "a" -> Txt.alt_a [] g.alt = "b" -> Txt.alt_b
              [] g.alt = "invalid" -> Txt.invalid [] OTHER -> <<>>,
            Txt.rest >>, Ch.comma)

Render(g) ==
    CASE g.form = "talker" ->
           LET body == TalkerBody(g)  c == checksum(body)
           IN  <<Ch.dollar>> \o body \o
               (CASE g.cs = "good" -> <<Ch.star>> \o Hex2(c)
                  [] g.cs = "bad" -> <<Ch.star>> \o Hex2(XorBits(c, 1, 8))
                  [] OTHER -> <<>>)
      [] g.form \in {"garbage", "proprietary", "query", "truncated"} -> Txt[g.form]
      [] OTHER -> <<>>

\* ground truth of a line, from how it was built
Structural(g) == \/ g.form \in {"proprietary", "query", "truncated"}
                 \/ g.form = "talker" /\ g.cs # "bad" /\ g.stype # "XYZ"
InGGAFamily(g) == \/ g.form \in {"query", "truncated"}
                  \/ g.form = "talker" /\ g.stype = "GGA"
LatPresent(g) == g.form = "truncated" \/ (g.form = "talker" /\ g.lat \in {"north", "south"})
LonPresent(g) == g.form = "talker" /\ g.lon \in {"east", "west"}
AltPresent(g) == g.form = "talker" /\ g.alt \in {"a", "b"}
ShouldBeFix(g) == /\ Structural(g) /\ InGGAFamily(g)
                  /\ LatPresent(g) /\ LonPresent(g) /\ AltPresent(g)

\* ------------------------------------------------------------ the storage lists
Lists == <<time_data, lat_data, lon_data, alt_data>>
ghosts == <<accepted, linesRead, parseCount, allBlank, cancelled, ended, acqFailed>>
config == <<USE_SERIAL, max_points, serial>>
Bump(n) == IF n < MaxReads THEN n + 1 ELSE n

\* rows of the Track as __main__ and the renderer read them (lines 166-167)
Track == [i \in 1..Len(lat_data) |->
            Fix(time_data[i], lat_data[i], lon_data[i], alt_data[i])]
EqualLengths == /\ Len(time_data) = Len(lat_data)
                /\ Len(lon_data) = Len(lat_data)
                /\ Len(alt_data) = Len(lat_data)

Fresh == /\ ser = "none"
         /\ time_data = <<>> /\ lat_data = <<>> /\ lon_data = <<>> /\ alt_data = <<>>
         /\ parsed = Rejected /\ idx = 1
         /\ accepted = <<>> /\ linesRead = 0 /\ parseCount = 0 /\ allBlank = TRUE
         /\ cancelled = FALSE /\ ended = "no" /\ acqFailed = FALSE
         /\ out = {} /\ render = "pending"

\* --------------------------------------------- parse_nmea as a pure function
ParseInit == /\ pc = "parse_call"
             /\ gen \in AllGens /\ raw = Render(gen)
             /\ USE_SERIAL = FALSE /\ max_points = 0 /\ serial = "None"
             /\ Fresh

ParseCall == /\ pc = "parse_call"
             /\ parsed' = parse_nmea(raw)
             /\ pc' = "parse_return"
             /\ UNCHANGED <<config, ser, Lists, raw, gen, idx, ghosts, out, render>>

ParseSpec == ParseInit /\ [][ParseCall]_vars

\* ------------------------------------------------------------------- __main__
Init == /\ pc = "L157"
        /\ USE_SERIAL \in BOOLEAN
        /\ max_points \in 0..MaxCap
        /\ serial \in {"module", "None"}
        /\ raw = <<>> /\ gen = NoGen
        /\ Fresh

\* lines 157-162: clear the lists, choose the collector
Main == /\ pc = "L157"
        /\ time_data' = <<>> /\ lat_data' = <<>> /\ lon_data' = <<>> /\ alt_data' = <<>>
        /\ pc' = IF USE_SERIAL THEN "L65" ELSE "L110"
        /\ UNCHANGED <<config, ser, raw, gen, parsed, idx, ghosts, out, render>>

\* ------------------------------------------- collect_from_serial, lines 64-97
\* lines 65-67
SerialMissing ==
    /\ pc = "L65" /\ serial = "None"
    /\ out' = out \cup {"pyserial not available"}
    /\ acqFailed' = TRUE
    /\ pc' = "L165"
    /\ UNCHANGED <<config, ser, Lists, raw, gen, parsed, idx, accepted, linesRead,
                   parseCount, allBlank, cancelled, ended, render>>

SerialPresent ==
    /\ pc = "L65" /\ serial = "module"
    /\ pc' = "L70"
    /\ UNCHANGED <<config, ser, Lists, raw, gen, parsed, idx, ghosts, out, render>>

\* line 70: serial.Serial(port, baud, timeout=1) returns the channel
OpenOK ==
    /\ pc = "L70"
    /\ ser' = "open"
    /\ pc' = "L75"
    /\ UNCHANGED <<config, Lists, raw, gen, parsed, idx, ghosts, out, render>>

\* mutant: the exception of serial.Serial is not caught
OpenFail_uncaught ==
    /\ pc = "L70"
    /\ acqFailed' = TRUE
    /\ pc' = "crashed"
    /\ UNCHANGED <<config, ser, Lists, raw, gen, parsed, idx, accepted, linesRead,
                   parseCount, allBlank, cancelled, ended, out, render>>

\* lines 70-73: serial.Serial raises
OpenFail ==
    /\ pc = "L70"
    /\ out' = out \cup {"Could not open serial port"}
    /\ acqFailed' = TRUE
    /\ pc' = "L165"
    /\ UNCHANGED <<config, ser, Lists, raw, gen, parsed, idx, accepted, linesRead,
                   parseCount, allBlank, cancelled, ended, render>>

\* line 75
Listen ==
    /\ pc = "L75"
    /\ out' = out \cup {"Listening"}
    /\ pc' = "L78"
    /\ UNCHANGED <<config, ser, Lists, raw, gen, parsed, idx, ghosts, render>>

\* line 78: while len(lat_data) < max_points
While ==
    /\ pc = "L78"
    /\ IF Len(lat_data) < max_points
       THEN pc' = "L79" /\ ended' = ended
       ELSE pc' = "L96" /\ ended' = "cap"
    /\ UNCHANGED <<config, ser, Lists, raw, gen, parsed, idx, accepted, linesRead,
                   parseCount, allBlank, cancelled, acqFailed, out, render>>

\* line 79: .decode("ascii", errors="ignore").strip()
Is7Bit(b) == b < 128
IsSpace(c) == c \in {9, 10, 11, 12, 13, 32}
decode(bytes) == SelectSeq(bytes, Is7Bit)
RECURSIVE LStrip(_)
LStrip(s) == IF s # <<>> /\ IsSpace(Head(s)) THEN LStrip(Tail(s)) ELSE s
RECURSIVE RStrip(_)
RStrip(s) == IF s # <<>> /\ IsSpace(s[Len(s)]) THEN RStrip(SubSeq(s, 1, Len(s) - 1)) ELSE s
strip(s) == RStrip(LStrip(s))

\* what the device puts on the wire for a line: the text and CR LF; the garbage
\* line also carries a byte that is no ASCII
Bytes(g) == (IF g.form = "garbage" THEN <<255>> ELSE <<>>) \o Render(g) \o <<13, 10>>

G(stype, ts, lat, lon, alt, cs) ==
    [form |-> "talker", talker |-> "GP", stype |-> stype, ts |-> ts, lat |-> lat,
     lon |-> lon, alt |-> alt, cs |-> cs]
SerialGens ==
    { G("GGA", "valid", "north", "east", "a", "good"),
      G("GGA", "absent", "south", "west", "b", "none"),
      G("GGA", "valid", "absent", "absent", "a", "good"),
      G("GGA", "valid", "north", "east", "absent", "good"),
      G("RMC", "valid", "north", "east", "a", "good"),
      G("GGA", "valid", "north", "east", "a", "bad"),
      Special("proprietary"), Special("garbage"), Special("empty") }

\* parse_nmea on the lines a session can meet, evaluated once (a table of the
\* function, so that the enabledness of the parsing steps is cheap to compute)
SessionLines == {strip(decode(Bytes(g))) : g \in SerialGens}
                  \cup {test_lines[i] : i \in 1..Len(test_lines)}
ParsedLines == [l \in SessionLines |-> parse_nmea(l)]
call_parse_nmea(l) == IF l \in SessionLines THEN ParsedLines[l] ELSE parse_nmea(l)

\* line 79: readline returns a line the device sent
ReadData ==
    /\ pc = "L79"
    /\ \E g \in SerialGens :
         /\ gen' = g
         /\ raw' = strip(decode(Bytes(g)))
    /\ linesRead' = Bump(linesRead)
    /\ parseCount' = 0
    /\ allBlank' = FALSE
    /\ pc' = "L80"
    /\ UNCHANGED <<config, ser, Lists, parsed, idx, accepted, cancelled, ended,
                   acqFailed, out, render>>

\* mutant: the channel is opened without a read timeout, readline blocks
ReadBlocking == FALSE /\ UNCHANGED vars

\* line 79 with timeout=1 (line 70): no data within the timeout, readline returns b""
ReadTimeout ==
    /\ pc = "L79"
    /\ gen' = NoGen
    /\ raw' = strip(decode(<<>>))
    /\ linesRead' = Bump(linesRead)
    /\ parseCount' = 0
    /\ pc' = "L80"
    /\ UNCHANGED <<config, ser, Lists, parsed, idx, accepted, allBlank, cancelled,
                   ended, acqFailed, out, render>>

\* line 79: readline raises (device unplugged): caught at line 92
ReadFault ==
    /\ pc = "L79"
    /\ ended' = "fault"
    /\ pc' = "L93"
    /\ UNCHANGED <<config, ser, Lists, raw, gen, parsed, idx, accepted, linesRead,
                   parseCount, allBlank, cancelled, acqFailed, out, render>>

\* lines 80-81
BlankCheck ==
    /\ pc = "L80"
    /\ pc' = IF raw = <<>> THEN "L78" ELSE "L82"
    /\ UNCHANGED <<config, ser, Lists, raw, gen, parsed, idx, ghosts, out, render>>

\* lines 82-84: parse, and on a result unpack it; an exception out of
\* parse_nmea is caught at line 92
ParseStep(r, onRejected) ==
    /\ pc = "L82"
    /\ parsed' = r
    /\ parseCount' = parseCount + 1
    /\ pc' = CASE r.kind = "fix" -> "L85"
               [] r.kind = "none" -> onRejected
               [] OTHER -> "L93"
    /\ ended' = IF r.kind = "raise" THEN "fault" ELSE ended
    /\ UNCHANGED <<config, ser, Lists, raw, gen, idx, accepted, linesRead, allBlank,
                   cancelled, acqFailed, out, render>>

\* mutant: a rejected line is parsed again instead of being skipped
Parse_retry == ParseStep(call_parse_nmea(raw), "L82")

\* a rejected line falls through to the loop test of line 78
Parse == ParseStep(call_parse_nmea(raw), "L78")

\* line 85
AppendTime ==
    /\ pc = "L85"
    /\ time_data' = Append(time_data, parsed.t)
    /\ pc' = "L86"
    /\ UNCHANGED <<config, ser, lat_data, lon_data, alt_data, raw, gen, parsed, idx,
                   ghosts, out, render>>
\* line 86
AppendLat ==
    /\ pc = "L86"
    /\ lat_data' = Append(lat_data, parsed.la)
    /\ pc' = "L87"
    /\ UNCHANGED <<config, ser, time_data, lon_data, alt_data, raw, gen, parsed, idx,
                   ghosts, out, render>>
\* line 87
AppendLon ==
    /\ pc = "L87"
    /\ lon_data' = Append(lon_data, parsed.lo)
    /\ pc' = "L88"
    /\ UNCHANGED <<config, ser, time_data, lat_data, alt_data, raw, gen, parsed, idx,
                   ghosts, out, render>>
\* lines 88-89
AppendAlt ==
    /\ pc = "L88"
    /\ alt_data' = Append(alt_data, parsed.al)
    /\ accepted' = Append(accepted, parsed)
    /\ out' = out \cup {"fix"}
    /\ pc' = "L78"
    /\ UNCHANGED <<config, ser, time_data, lat_data, lon_data, raw, gen, parsed, idx,
                   linesRead, parseCount, allBlank, cancelled, ended, acqFailed, render>>

\* Ctrl+C: KeyboardInterrupt is raised at whatever statement is executing.
\* The user cancels at most once, between the acquisition of the channel and
\* the end of the read loop.
LoopPcs == {"L78", "L79", "L80", "L82", "L85", "L86", "L87", "L88"}

\* inside the try of lines 77-89: handled at line 90
InterruptInLoop ==
    /\ pc \in LoopPcs /\ ~cancelled
    /\ cancelled' = TRUE
    /\ ended' = "cancel"
    /\ pc' = "L91"
    /\ UNCHANGED <<config, ser, Lists, raw, gen, parsed, idx, accepted, linesRead,
                   parseCount, allBlank, acqFailed, out, render>>

\* at line 75, after line 70 and before the try of line 77: nothing handles
\* it, it leaves collect_from_serial and __main__
InterruptBeforeTry ==
    /\ pc = "L75" /\ ~cancelled
    /\ cancelled' = TRUE
    /\ pc' = "crashed"
    /\ UNCHANGED <<config, ser, Lists, raw, gen, parsed, idx, accepted, linesRead,
                   parseCount, allBlank, ended, acqFailed, out, render>>

\* lines 90-91
ExceptInterrupt ==
    /\ pc = "L91"
    /\ out' = out \cup {"Interrupted by user"}
    /\ pc' = "L96"
    /\ UNCHANGED <<config, ser, Lists, raw, gen, parsed, idx, ghosts, render>>

\* lines 92-94
ExceptFault ==
    /\ pc = "L93"
    /\ out' = out \cup {"Unexpected error while reading serial"}
    /\ pc' = "L96"
    /\ UNCHANGED <<config, ser, Lists, raw, gen, parsed, idx, ghosts, render>>

\* lines 95-97
Finally ==
    /\ pc = "L96"
    /\ ser' = "closed"
    /\ out' = out \cup {"Serial closed"}
    /\ pc' = "L165"
    /\ UNCHANGED <<config, Lists, raw, gen, parsed, idx, ghosts, render>>

\* ---------------------------------------- collect_from_testlines, lines 100-117
\* one iteration of the for loop of lines 110-117
TestLineStep(line, r) ==
    /\ pc = "L110" /\ idx <= Len(test_lines)
    /\ raw' = line
    /\ gen' = NoGen
    /\ parsed' = r
    /\ IF r.kind = "fix"
       THEN /\ time_data' = Append(time_data, r.t)
            /\ lat_data' = Append(lat_data, r.la)
            /\ lon_data' = Append(lon_data, r.lo)
            /\ alt_data' = Append(alt_data, r.al)
            /\ accepted' = Append(accepted, r)
       ELSE UNCHANGED <<Lists, accepted>>
    /\ pc' = IF r.kind = "raise" THEN "crashed" ELSE "L110"
    /\ idx' = idx + 1
    /\ UNCHANGED <<config, ser, linesRead, parseCount, allBlank, cancelled, ended,
                   acqFailed, out, render>>

TestLine ==
    /\ idx <= Len(test_lines)
    /\ TestLineStep(test_lines[idx], call_parse_nmea(test_lines[idx]))

\* the list is exhausted
TestLinesDone ==
    /\ pc = "L110" /\ idx > Len(test_lines)
    /\ pc' = "L165"
    /\ UNCHANGED <<config, ser, Lists, raw, gen, parsed, idx, ghosts, out, render>>

\* ------------------------------------------------------ __main__, lines 164-169
\* lines 165-167: the row print indexes all four lists up to len(lat_data)
Report ==
    /\ pc = "L165"
    /\ IF /\ Len(time_data) >= Len(lat_data)
          /\ Len(lon_data) >= Len(lat_data)
          /\ Len(alt_data) >= Len(lat_data)
       THEN out' = out \cup {"Collected"} /\ pc' = "L169"
       ELSE out' = out /\ pc' = "crashed"           \* IndexError
    /\ UNCHANGED <<config, ser, Lists, raw, gen, parsed, idx, ghosts, render>>

\* line 169, plot_3d lines 119-151
plot_3d ==
    /\ pc = "L169"
    /\ render' = IF lat_data = <<>> THEN "nothing"                      \* lines 122-124
                 ELSE IF Len(lon_data) = Len(lat_data) /\ Len(alt_data) = Len(lat_data)
                      THEN "plotted"                                    \* lines 126-145
                      ELSE "failed"                                     \* lines 149-151
    /\ pc' = "done"
    /\ UNCHANGED <<config, ser, Lists, raw, gen, parsed, idx, ghosts, out>>

Next == \/ Main
        \/ SerialMissing \/ SerialPresent \/ OpenOK \/ OpenFail \/ Listen
        \/ While \/ ReadData \/ ReadTimeout \/ ReadFault \/ BlankCheck \/ Parse
        \/ AppendTime \/ AppendLat \/ AppendLon \/ AppendAlt
        \/ InterruptInLoop \/ InterruptBeforeTry
        \/ ExceptInterrupt \/ ExceptFault \/ Finally
        \/ TestLine \/ TestLinesDone
        \/ Report \/ plot_3d

Spec == Init /\ [][Next]_vars

\* The interpreter runs the next statement; a blocking readline returns after
\* the one-second timeout at the latest. Nothing obliges the device to send
\* data, to fail, or the user to cancel.
Step == \/ Main
        \/ SerialMissing \/ SerialPresent \/ OpenOK \/ OpenFail \/ Listen
        \/ While \/ BlankCheck \/ Parse
        \/ AppendTime \/ AppendLat \/ AppendLon \/ AppendAlt
        \/ ExceptInterrupt \/ ExceptFault \/ Finally
        \/ TestLine \/ TestLinesDone
        \/ Report \/ plot_3d

FairSpec == Spec /\ WF_vars(Step) /\ WF_vars(ReadTimeout)

\* ===================================================================== claims
AfterCollect == {"L165", "L169", "done", "crashed"}

\* C1: in every reachable state, for either source and every cap >= 0, the
\* number of stored fixes is at most the cap.
C1_LengthWithinCap ==
    /\ Len(time_data) <= max_points
    /\ Len(lat_data) <= max_points
    /\ Len(lon_data) <= max_points
    /\ Len(alt_data) <= max_points

\* C2: once the serial channel has been acquired, it is closed whenever control
\* has left collect_from_serial, whatever the exit path.
C2_ClosedOnEveryExit ==
    (pc \in AfterCollect /\ ser # "none") => ser = "closed"

\* C3: when the read loop is ended by a read fault or by cancellation, the four
\* sequences have the same length (no partial fix) and the loop reads no more.
C3_WholeFixesOnly ==
    ended \in {"fault", "cancel"} => (EqualLengths /\ pc \notin LoopPcs)

\* C4: when the channel cannot be acquired (no serial library, or the open
\* fails), the error is reported, nothing is stored, the program does not crash
\* and goes on to the render phase, which finds nothing to plot.
AcquisitionErrors == {"pyserial not available", "Could not open serial port"}
C4_AcquisitionFailure ==
    /\ [](acqFailed =>
            /\ out \cap AcquisitionErrors # {}
            /\ time_data = <<>> /\ lat_data = <<>> /\ lon_data = <<>> /\ alt_data = <<>>
            /\ ser = "none"
            /\ pc \in {"L165", "L169", "done"}
            /\ (pc = "done" => render = "nothing"))
    /\ (acqFailed ~> (pc = "done" /\ render = "nothing"))
C4_Witness ==
    /\ acqFailed /\ serial = "module" /\ pc = "done" /\ render = "nothing"
    /\ "Could not open serial port" \in out /\ Track = <<>>

\* C5: for every input line parse_nmea returns a Fix or Rejected (None) and
\* never raises.
C5_NeverRaises ==
    pc = "parse_return" => parsed.kind \in {"fix", "none"}

\* C6: the fixture session over the 6 built-in sentences ends with a Track of
\* length 6 whose altitudes are 545.4, 550.0, 560.0, 570.0, 580.0, 590.0,
\* strictly increasing.
C6_FixtureSession ==
    (~USE_SERIAL /\ pc \in {"L165", "L169", "done"}) =>
        /\ Len(Track) = 6
        /\ EqualLengths
        /\ alt_data = <<545400, 550000, 560000, 570000, 580000, 590000>>
        /\ \A i \in 1..(Len(alt_data) - 1) : alt_data[i] < alt_data[i + 1]

\* C7: parse_nmea returns a Fix exactly when the line parses structurally, is
\* of the GGA family, and latitude, longitude and altitude are each present and
\* convertible; the timestamp never decides, and an absent timestamp gives an
\* empty time string.
C7_FixIffComplete ==
    pc = "parse_return" =>
        /\ (parsed.kind = "fix") <=> ShouldBeFix(gen)
        /\ (parsed.kind = "fix" /\ gen.ts = "absent") => parsed.t = <<>>
        /\ \A ts \in {"absent", "valid", "invalid"} :
             gen.form = "talker" =>
               (parse_nmea(Render([gen EXCEPT !.ts = ts])).kind = "fix"
                  <=> parsed.kind = "fix")

\* C8: in the live loop a blank line or a line the parser rejects leaves the
\* four sequences unchanged and takes no slot of the cap (the loop goes back
\* to its test with the same length), and no line is parsed twice.
Skipping == \/ pc = "L80" /\ raw = <<>>
            \/ pc = "L82" /\ parse_nmea(raw).kind = "none"
C8_SkippedLines ==
    /\ [][Skipping => /\ Lists' = Lists
                      /\ accepted' = accepted
                      /\ pc' \in {"L78", "L91"}]_vars
    /\ [](parseCount <= 1)
    /\ [](pc = "L79" => Len(lat_data) < max_points)
C8_Witness ==
    /\ pc = "L79" /\ parsed.kind = "none" /\ parseCount = 1
    /\ linesRead > max_points
    /\ Len(lat_data) >= 1 /\ Len(lat_data) < max_points
    /\ Track = accepted

\* C9: at every point of a session the Track is exactly the sequence of the
\* fixes of the accepted lines so far, in arrival order (checked wherever no
\* append is under way: at the loop tests and after collection).
C9_TrackIsAcceptedFixes ==
    pc \in {"L78", "L110", "L165", "L169", "done", "crashed"} =>
        (EqualLengths /\ Track = accepted)

\* C10 as stated: the read loop, once entered, eventually ends with the channel
\* closed, also when the device is stalled.
C10_LoopEnds == (pc = "L78") ~> (ser = "closed")

\* C10 as amended: a blocking read returns (with no data, after the timeout,
\* when the device is stalled), and once the loop has ended (cap, cancellation
\* in the loop, fault) the channel gets closed. The loop itself need not end.
C10_ReadsReturnEndCloses ==
    /\ (pc = "L79") ~> (pc # "L79")
    /\ (ended # "no") ~> (ser = "closed" /\ pc \notin LoopPcs)
C10_Witness ==
    /\ ser = "closed" /\ ended = "cancel"
    /\ allBlank /\ linesRead = MaxReads /\ Track = <<>>

====
